---- MODULE Spec2Model ----
(***************************************************************************)
(* TekanaAI: Kinyarwanda text-to-speech.  Three independent programs are   *)
(* modelled, each with its own specification:                              *)
(*   Spec        the inference engine (tts_engine.py, both copies)         *)
(*   SpecDecode  the parquet decoder (decode_parquet_to_wav.py)            *)
(*   SpecSetup   the trainer's start-up (train_mms_tts.py, lines 17-131)   *)
(*   SpecTrain   the trainer's epoch loop (train_mms_tts.py, 135-188)      *)
(*   SpecCheckpoint  the same loop on runs of up to ten epochs             *)
(* Strings that the code inspects (environment values, paths) are          *)
(* sequences: a path is its sequence of segments, an environment value     *)
(* that is lower-cased is its sequence of characters.  A Python dict is a  *)
(* function whose DOMAIN is the set of keys present.                       *)
(***************************************************************************)
EXTENDS Integers, Sequences, FiniteSets, TLC

VARIABLES
    \* ---- inference engine ----
    engine,     \* which copy of tts_engine.py this process imported
    env,        \* os.environ: variable name -> value (absent = unset)
    fs,         \* model directories on disk: path -> set of file names
    _model,     \* the module-level cached pipeline handle (<<>> = None)
    nBuilt,     \* how many pipelines this process has constructed
    last,       \* what the last call did (call trace)
    out,        \* what the call just made returned (<<>>: nothing)
    \* ---- parquet decoder ----
    dpc, tables, split, i, rows, dfs, wavs, csv, skiplog, cur,
    \* ---- trainer ----
    tpc, cfg, tfs, meta, load_from, loaded, lr, epochs, steps,
    epoch, batch_idx, epoch_loss, n_batches, best_loss,
    weights, final_dir, checkpoint_dir, saves, hist, raised, batch_log

engineVars == <<engine, env, fs, _model, nBuilt, last, out>>
decodeVars == <<dpc, tables, split, i, rows, dfs, wavs, csv, skiplog, cur>>
trainVars  == <<tpc, cfg, tfs, meta, load_from, loaded, lr, epochs, steps,
                epoch, batch_idx, epoch_loss, n_batches, best_loss,
                weights, final_dir, checkpoint_dir, saves, hist, raised,
                batch_log>>
vars == <<engineVars, decodeVars, trainVars>>

\* Python's None, and dict.get / os.environ.get with a default.
None == <<>>
Get(d, k, default) == IF k \in DOMAIN d THEN d[k] ELSE default

Min(a, b) == IF a < b THEN a ELSE b

\* A dict from optional entries: the keys whose entry is <<v>>, not <<>>.
MkDict(entries) ==
    [k \in {x \in DOMAIN entries : entries[x] # None} |-> entries[k][1]]

(***************************************************************************)
(*                        THE INFERENCE ENGINE                             *)
(***************************************************************************)

DEFAULT_MODEL == <<"facebook/mms-tts-kin">>

_WEIGHT_FILES ==
    {"model.safetensors", "pytorch_model.bin", "tf_model.h5", "flax_model.msgpack"}

\* str.lower(), character by character.
UpperChars == <<"A","B","C","D","E","F","G","H","I","J","K","L","M",
                "N","O","P","Q","R","S","T","U","V","W","X","Y","Z">>
LowerChars == <<"a","b","c","d","e","f","g","h","i","j","k","l","m",
                "n","o","p","q","r","s","t","u","v","w","x","y","z">>
LowerChar(c) ==
    IF \E k \in 1..26 : UpperChars[k] = c
    THEN LowerChars[CHOOSE k \in 1..26 : UpperChars[k] = c]
    ELSE c
Lower(s) == [k \in 1..Len(s) |-> LowerChar(s[k])]

\* The values that switch the local model off.
TruthyWords == {<<"1">>, <<"t","r","u","e">>, <<"y","e","s">>}

\* os.environ.get("TTS_USE_PRETRAINED", "").lower() in ("1", "true", "yes")
use_pretrained(e) == Lower(Get(e, "TTS_USE_PRETRAINED", <<>>)) \in TruthyWords

\* Path(__file__).resolve().parents[1] (or the cwd under reticulate).
ScriptRoot == <<"app">>

\* get_model_dir(): "if not root" also takes the empty string.
get_model_dir(e) ==
    LET root == Get(e, "TTS_PROJECT_ROOT", <<>>)
    IN  (IF root = <<>> THEN ScriptRoot ELSE root) \o <<"artifacts", "final_model">>

\* Path.exists() of a directory, and of a file in it.
DirExists(f, p) == p \in DOMAIN f
FileExists(f, p, name) == p \in DOMAIN f /\ name \in f[p]

_has_weights(f, p) == \E w \in _WEIGHT_FILES : FileExists(f, p, w)

\* The condition under which load_model() takes the local fine-tuned directory.
UseLocalNoWeightCheck(eng, e, f) ==
    /\ ~use_pretrained(e)
    /\ DirExists(f, get_model_dir(e))
    /\ FileExists(f, get_model_dir(e), "config.json")
UseLocal(eng, e, f) ==
    /\ ~use_pretrained(e)
    /\ DirExists(f, get_model_dir(e))
    /\ FileExists(f, get_model_dir(e), "config.json")
    /\ (eng = "shiny" => _has_weights(f, get_model_dir(e)))

\* The model handed to pipeline(model=...).
SelectModelPath(eng, e, f) ==
    IF UseLocal(eng, e, f)
    THEN get_model_dir(e)
    ELSE Get(e, "TTS_MODEL_PATH", DEFAULT_MODEL)

\* The line load_model() prints before it builds the pipeline (Shiny engine
\* only; the other copy prints nothing): the message and the model it names.
NoMessage == [msg |-> "", names |-> <<>>]
LoadMessage(eng, e, f) ==
    IF eng # "shiny" THEN NoMessage
    ELSE IF UseLocal(eng, e, f)
    THEN [msg |-> "Loading fine-tuned model", names |-> get_model_dir(e)]
    ELSE IF /\ ~use_pretrained(e)
            /\ DirExists(f, get_model_dir(e))
            /\ ~_has_weights(f, get_model_dir(e))
    THEN [msg |-> "No weights - falling back to pretrained", names |-> DEFAULT_MODEL]
    ELSE [msg |-> "Loading pretrained model",
          names |-> Get(e, "TTS_MODEL_PATH", DEFAULT_MODEL)]

\* getattr(config, "sampling_rate", getattr(config, "sample_rate", 16000))
FallbackRate == 16000
CachedRate(config) == Get(config, "sampling_rate", Get(config, "sample_rate", FallbackRate))

\* pipeline("text-to-speech", model=model_path, ...) and the caching of the
\* rate on the handle.  The handle is <<>> (None) or <<h>>.
BuildPipeline(eng, e, f, config) ==
    <<[path |-> SelectModelPath(eng, e, f), _sampling_rate |-> CachedRate(config)]>>

\* load_model(): what one call does to the handle m, given the config of the
\* model it would load and whether pipeline() succeeds (it raises otherwise,
\* before anything is assigned).  Returns the handle afterwards and what the
\* call did.
load_model_always(m, eng, e, f, config, ok) ==
    IF ok
    THEN [model |-> BuildPipeline(eng, e, f, config),
          readEnv |-> TRUE, built |-> TRUE, raised |-> FALSE,
          msg |-> LoadMessage(eng, e, f)]
    ELSE [model |-> m, readEnv |-> TRUE, built |-> FALSE, raised |-> TRUE,
          msg |-> LoadMessage(eng, e, f)]
load_model(m, eng, e, f, config, ok) ==
    IF m # None
    THEN [model |-> m, readEnv |-> FALSE, built |-> FALSE, raised |-> FALSE,
          msg |-> NoMessage]
    ELSE IF ok
    THEN [model |-> BuildPipeline(eng, e, f, config),
          readEnv |-> TRUE, built |-> TRUE, raised |-> FALSE,
          msg |-> LoadMessage(eng, e, f)]
    ELSE [model |-> m, readEnv |-> TRUE, built |-> FALSE, raised |-> TRUE,
          msg |-> LoadMessage(eng, e, f)]

\* ---- post-processing: a waveform is [n: its number of samples,
\* peak: max |sample| in millionths of full scale] ----

FullScale == 1000000

\* scipy.signal.resample_poly(audio, up, down): the output has
\* ceil(n * up / down) samples.
ResampleLen(n, up, down) == (n * up + down - 1) \div down

\* np.clip(audio, -1.0, 1.0)
Clip(a) == [a EXCEPT !.peak = Min(a.peak, FullScale)]

\* The linear filters (resample_poly, then _remove_dc in the Shiny engine or
\* _bandpass_speech in the other): zeros stay zeros, anything else comes out
\* with some peak g that the samples decide.
Filtered(a, g) == [a EXCEPT !.peak = IF a.peak = 0 THEN 0 ELSE g]

\* "if peak > 1e-6: audio = (audio / peak) * 0.95"
PeakThreshold == 1
NormalizedPeak == 950000
Normalize(a) == IF a.peak > PeakThreshold THEN [a EXCEPT !.peak = NormalizedPeak] ELSE a

\* sf.write(..., subtype="PCM_16"): samples become 16-bit integers.
PcmScale == 32768
\* (p * PcmScale / FullScale, with both scaled down by 64 to stay in 32 bits.)
Pcm16(p) == Min(PcmScale - 1, (p * (PcmScale \div 64)) \div (FullScale \div 64))

TARGET_RATE == 16000

\* _to_wav_bytes(audio, sampling_rate, target_sr=16000): the WAV written,
\* [sr: the rate in its header, n: samples, peak: max |sample| as PCM_16,
\* normalized: whether the peak normalization was applied].
_to_wav_bytes(audio, sampling_rate, g) ==
    LET clipped   == Clip(audio)
        resampled == IF sampling_rate # TARGET_RATE
                     THEN [clipped EXCEPT
                             !.n = ResampleLen(clipped.n, TARGET_RATE, sampling_rate)]
                     ELSE clipped
        rate      == IF sampling_rate # TARGET_RATE THEN TARGET_RATE ELSE sampling_rate
        filtered  == Clip(Filtered(resampled, g))
    IN  [sr |-> rate, n |-> resampled.n,
         peak |-> Pcm16(Normalize(filtered).peak),
         normalized |-> filtered.peak > PeakThreshold]

\* ---- synthesize ----

\* The pipeline's output is a list or tuple of items, a dict, or a bare
\* array; an item of a list is a dict or a bare array.
EmptyDict == <<>>
Unpack(output) ==
    IF output.kind = "list"
    THEN (IF output.items # <<>> THEN output.items[1] ELSE [kind |-> "dict", d |-> EmptyDict])
    ELSE output

\* audio = output.get("audio", output.get("output")) for a dict, the output
\* itself otherwise.  <<>> is None, <<a>> a waveform.
OutputAudio(o) ==
    IF o.kind = "dict" THEN Get(o.d, "audio", Get(o.d, "output", None)) ELSE <<o.audio>>

\* sr = output.get("sampling_rate", output.get("sample_rate")) for a dict,
\* None otherwise.
OutputRate(o) ==
    IF o.kind = "dict" THEN Get(o.d, "sampling_rate", Get(o.d, "sample_rate", None)) ELSE None

\* The rate synthesize() settles on: the one cached on the handle h.
\*   Shiny:  sr = getattr(_model, "_sampling_rate", 16000)
\*   other:  if hasattr(_model, "_sampling_rate"): sr = ...; if sr is None: 16000
SynthRateFromOutput(eng, h, outSr) ==
    IF outSr # None THEN outSr[1] ELSE h._sampling_rate
SynthRate(eng, h, outSr) ==
    IF "_sampling_rate" \in DOMAIN h THEN h._sampling_rate
    ELSE IF eng = "shiny" \/ outSr = None THEN FallbackRate
    ELSE outSr[1]

\* "audio = np.zeros(int(sr * 2))": the 2-second silent fallback.
FALLBACK_SECONDS == 2
SilenceOneSecond(sr) == [n |-> sr, peak |-> 0]
Silence(sr) == [n |-> sr * FALLBACK_SECONDS, peak |-> 0]

\* The waveform handed to _to_wav_bytes.
SynthAudio(o, sr) == IF OutputAudio(o) = None THEN Silence(sr) ELSE OutputAudio(o)[1]

\* What synthesize() was given by the pipeline, as far as its shape goes:
\* the kind of the output, the length of a list, the keys of the dict.
Given(output) ==
    [kind |-> output.kind,
     len  |-> IF output.kind = "list" THEN Len(output.items) ELSE 1,
     keys |-> IF output.kind = "dict" THEN DOMAIN output.d
              ELSE IF output.kind = "list" /\ output.items # <<>>
                      /\ output.items[1].kind = "dict"
              THEN DOMAIN output.items[1].d
              ELSE {},
     item |-> IF output.kind = "list" /\ output.items # <<>>
              THEN output.items[1].kind ELSE output.kind]

\* synthesize(text), after load_model() left handle h: the pair returned
\* (with what went in: the output's shape, the samples handed on).
synthesize(eng, h, output, g, latency) ==
    LET o  == Unpack(output)
        sr == SynthRate(eng, h, OutputRate(o))
    IN  [wav |-> _to_wav_bytes(SynthAudio(o, sr), sr, g),
         latency_ms |-> latency,
         given |-> Given(output),
         samples_in |-> SynthAudio(o, sr).n]

\* ---- the engine as a state machine ----

Engines == {"shiny", "inference"}

\* Values the environment variables take (absent from env = unset).
EnvValues ==
    [TTS_PROJECT_ROOT   |-> {<<>>, <<"proj">>},
     TTS_MODEL_PATH     |-> {<<"org/custom-tts">>},
     TTS_USE_PRETRAINED |-> {<<"1">>, <<"T","R","U","E">>, <<"Y","e","s">>, <<"n","o">>}]
EnvNames == DOMAIN EnvValues
EnvStates ==
    UNION {{e \in [S -> UNION {EnvValues[v] : v \in S}] :
              \A v \in S : e[v] \in EnvValues[v]} : S \in SUBSET EnvNames}

\* What a model directory may hold.
DirContents ==
    {{}, {"config.json"}, {"model.safetensors"}}
      \cup {{"config.json", w} : w \in _WEIGHT_FILES}

\* The disks the engine is started on: the project's final_model directory
\* in any of these states, the one beside the script absent or complete.
ProjModelDir == <<"proj", "artifacts", "final_model">>
ScriptModelDir == ScriptRoot \o <<"artifacts", "final_model">>
FsStates ==
    {MkDict([proj |-> a, script |-> b]) :
        a \in {None, <<{}>>, <<{"config.json"}>>, <<{"model.safetensors"}>>,
               <<{"config.json", "model.safetensors"}>>},
        b \in {None, <<{"config.json", "pytorch_model.bin"}>>}}
FsOf(d) ==
    [p \in {ProjModelDir : x \in DOMAIN d \cap {"proj"}}
             \cup {ScriptModelDir : x \in DOMAIN d \cap {"script"}} |->
        IF p = ProjModelDir THEN d["proj"] ELSE d["script"]]

\* The config.json of the model that gets loaded.
Rates == {16000, 22050}
ModelConfigs ==
    {EmptyDict, [sampling_rate |-> 16000], [sampling_rate |-> 22050],
     [sample_rate |-> 22050], [sampling_rate |-> 16000, sample_rate |-> 22050]}

\* What the pipeline may return for a text: a dict with or without audio
\* and rate entries, a bare array, or a list of one of these (or of none).
Silent == [n |-> 11025, peak |-> 0]
Voiced == [n |-> 11025, peak |-> 500000]
Waveforms == {Silent, Voiced}
Gains == {1, 1200000}
OutputDicts ==
    {EmptyDict, [audio |-> None], [audio |-> <<Silent>>], [audio |-> <<Voiced>>],
     [output |-> <<Voiced>>]}
      \cup {[sampling_rate |-> <<r>>] : r \in Rates}
      \cup {[audio |-> <<Voiced>>, sampling_rate |-> <<r>>] : r \in Rates}
      \cup {[audio |-> <<Voiced>>, sample_rate |-> <<r>>] : r \in Rates}
OutputItems ==
    {[kind |-> "dict", d |-> d] : d \in OutputDicts}
      \cup {[kind |-> "raw", audio |-> w] : w \in Waveforms}
Outputs ==
    OutputItems
      \cup {[kind |-> "list", items |-> <<>>]}
      \cup {[kind |-> "list", items |-> <<it>>] :
              it \in {x \in OutputItems :
                        x.kind = "raw" \/ DOMAIN x.d \in {{}, {"audio", "sampling_rate"}}}}
Latencies == {120}

NoCall == [op |-> "none", readEnv |-> FALSE, built |-> FALSE, raised |-> FALSE,
           msg |-> NoMessage, before |-> None, used |-> None]

BuildCap == 3

InitEngine ==
    /\ engine \in Engines
    /\ env \in EnvStates
    /\ \E d \in FsStates : fs = FsOf(d)
    /\ _model = None
    /\ nBuilt = 0
    /\ last = NoCall
    /\ out = None

\* A call reads the model's config, and can fail in pipeline(), only when
\* no handle is cached yet.
ConfigsRead == IF _model = None THEN ModelConfigs ELSE {EmptyDict}
OutcomesRead == IF _model = None THEN BOOLEAN ELSE {TRUE}

\* A call of load_model() from outside (app.R warms the model up).
CallLoadModel ==
    /\ nBuilt < BuildCap
    /\ \E config \in ConfigsRead, ok \in OutcomesRead :
         \E r \in {load_model(_model, engine, env, fs, config, ok)} :
             /\ _model' = r.model
             /\ nBuilt' = nBuilt + (IF r.built THEN 1 ELSE 0)
             /\ last' = [op |-> "load_model", readEnv |-> r.readEnv, built |-> r.built,
                         raised |-> r.raised, msg |-> r.msg,
                         before |-> _model, used |-> None]
    /\ out' = None
    /\ UNCHANGED <<engine, env, fs>>
    /\ UNCHANGED <<decodeVars, trainVars>>

\* A call of synthesize(text): load_model(), the pipeline, the WAV.  When
\* load_model() raises, so does synthesize(), and nothing is returned.
CallSynthesize ==
    /\ nBuilt < BuildCap
    /\ \E config \in ConfigsRead, ok \in OutcomesRead :
         \E r \in {load_model(_model, engine, env, fs, config, ok)} :
             /\ _model' = r.model
             /\ nBuilt' = nBuilt + (IF r.built THEN 1 ELSE 0)
             /\ last' = [op |-> "synthesize", readEnv |-> r.readEnv, built |-> r.built,
                         raised |-> r.raised, msg |-> r.msg,
                         before |-> _model,
                         used |-> IF r.raised THEN None ELSE r.model]
             /\ IF r.raised
                THEN out' = None
                ELSE \E output \in Outputs, g \in Gains, latency \in Latencies :
                        out' = <<synthesize(engine, r.model[1], output, g, latency)>>
    /\ UNCHANGED <<engine, env, fs>>
    /\ UNCHANGED <<decodeVars, trainVars>>

\* The host changes the environment between calls (os.environ is mutable;
\* run_synthesis.py sets TTS_PROJECT_ROOT itself).
SetEnv ==
    /\ \E e \in EnvStates :
         /\ e # env
         /\ Cardinality({v \in EnvNames : Get(e, v, <<"unset">>) # Get(env, v, <<"unset">>)}) = 1
         /\ env' = e
    /\ last' = [NoCall EXCEPT !.op = "setenv"]
    /\ out' = None
    /\ UNCHANGED <<engine, fs, _model, nBuilt>>
    /\ UNCHANGED <<decodeVars, trainVars>>

NextEngine == CallLoadModel \/ CallSynthesize \/ SetEnv

(***************************************************************************)
(*                        THE PARQUET DECODER                              *)
(***************************************************************************)

TARGET_SR == 16000

\* The splits, in the order main() takes them.
SplitNames == <<"train", "validation", "test">>

\* f"{i:06d}": the decimal digits of i, zero-padded to six.
DigitChars == <<"0", "1", "2", "3", "4", "5", "6", "7", "8", "9">>
RECURSIVE Digits(_)
Digits(n) == IF n < 10 THEN <<DigitChars[n + 1]>>
             ELSE Digits(n \div 10) \o <<DigitChars[(n % 10) + 1]>>
RECURSIVE ZeroPad(_, _)
ZeroPad(s, w) == IF Len(s) >= w THEN s ELSE ZeroPad(<<"0">> \o s, w)
PadWidth == 6

\* os.path.join(wav_dir, f"{name}_{i:06d}.wav")
WavPath(name, k) ==
    <<"out", "wav">> \o <<name, "_">> \o ZeroPad(Digits(k), PadWidth) \o <<".wav">>

\* The audio cell of a row: null, or a dict that may hold "bytes".
\*   audio_bytes = val.get("bytes"), and None for a null cell.
AudioBytes(val) ==
    IF val.kind = "null" THEN [kind |-> "none"] ELSE Get(val.d, "bytes", [kind |-> "none"])

\* "if not audio_bytes": None and b"" are both falsy.
NoBytes(b) == b.kind \in {"none", "empty"}

\* decode_audio_bytes: sf.read raises on bytes that are no audio file;
\* otherwise mono, resampled to 16 kHz with int(len * target / sr) samples.
DecodeRaises(b) == b.kind = "corrupt"
decode_audio_bytes(b) ==
    IF b.sr # TARGET_SR
    THEN [n |-> (b.n * TARGET_SR) \div b.sr, sr |-> TARGET_SR]
    ELSE [n |-> b.n, sr |-> b.sr]

\* round(len(arr) / sr, 4), in ten-thousandths of a second.
DurationScale == 10000
Duration(arr) == (2 * arr.n * DurationScale + arr.sr) \div (2 * arr.sr)

\* Whether a row is one the decoder skips: no audio, or audio that fails
\* to decode.
SkipsSilently(row) == row.audio.kind = "null" \/ NoBytes(AudioBytes(row.audio))
SkipsLogged(row) == ~SkipsSilently(row) /\ DecodeRaises(AudioBytes(row.audio))

\* int(spk) raises on a null speaker_id.
MetaRaises(row) == row.speaker_id = None

\* One iteration of run_split's loop on row k of split `name`: the rows
\* collected, the files written and the messages logged afterwards, and
\* what became of the row.  writeOk: whether sf.write succeeds.
run_split_row_nocatch(name, k, row, writeOk, rws, files, logged) ==
    IF SkipsSilently(row) THEN
        [rows |-> rws, wavs |-> files, log |-> logged, outcome |-> "skipped"]
    ELSE IF DecodeRaises(AudioBytes(row.audio)) THEN
        [rows |-> rws, wavs |-> files, log |-> logged, outcome |-> "raised"]
    ELSE IF ~writeOk THEN
        [rows |-> rws, wavs |-> files, log |-> logged, outcome |-> "raised"]
    ELSE IF MetaRaises(row) THEN
        [rows |-> rws, wavs |-> files \cup {WavPath(name, k)}, log |-> logged,
         outcome |-> "raised"]
    ELSE
        [rows |-> Append(rws, [split |-> name, path |-> WavPath(name, k),
                               text |-> row.text, speaker_id |-> row.speaker_id[1],
                               duration_sec |-> Duration(decode_audio_bytes(AudioBytes(row.audio)))]),
         wavs |-> files \cup {WavPath(name, k)}, log |-> logged, outcome |-> "written"]
run_split_row_append_unwritten(name, k, row, writeOk, rws, files, logged) ==
    IF SkipsSilently(row) THEN
        [rows |-> rws, wavs |-> files, log |-> logged, outcome |-> "skipped"]
    ELSE IF DecodeRaises(AudioBytes(row.audio)) THEN
        [rows |-> rws, wavs |-> files, log |-> Append(logged, k), outcome |-> "logged"]
    ELSE IF MetaRaises(row) THEN
        [rows |-> rws, wavs |-> files, log |-> logged, outcome |-> "raised"]
    ELSE
        [rows |-> Append(rws, [split |-> name, path |-> WavPath(name, k),
                               text |-> row.text, speaker_id |-> row.speaker_id[1],
                               duration_sec |-> Duration(decode_audio_bytes(AudioBytes(row.audio)))]),
         wavs |-> IF writeOk THEN files \cup {WavPath(name, k)} ELSE files,
         log |-> logged,
         outcome |-> IF writeOk THEN "written" ELSE "raised"]
run_split_row(name, k, row, writeOk, rws, files, logged) ==
    IF SkipsSilently(row) THEN
        [rows |-> rws, wavs |-> files, log |-> logged, outcome |-> "skipped"]
    ELSE IF DecodeRaises(AudioBytes(row.audio)) THEN
        [rows |-> rws, wavs |-> files, log |-> Append(logged, k), outcome |-> "logged"]
    ELSE IF ~writeOk THEN
        [rows |-> rws, wavs |-> files, log |-> logged, outcome |-> "raised"]
    ELSE IF MetaRaises(row) THEN
        [rows |-> rws, wavs |-> files \cup {WavPath(name, k)}, log |-> logged,
         outcome |-> "raised"]
    ELSE
        [rows |-> Append(rws, [split |-> name, path |-> WavPath(name, k),
                               text |-> row.text, speaker_id |-> row.speaker_id[1],
                               duration_sec |-> Duration(decode_audio_bytes(AudioBytes(row.audio)))]),
         wavs |-> files \cup {WavPath(name, k)}, log |-> logged, outcome |-> "written"]

\* ---- the decoder as a state machine ----

MaxRows == 2

\* A split has no parquet file (<<>>), or its shards hold num_rows rows.
TableStates == [1..3 -> {None} \cup {<<k>> : k \in 0..MaxRows}]

AudioCells ==
    {[kind |-> "null"], [kind |-> "dict", d |-> [path |-> "clip.wav"]]}
      \cup {[kind |-> "dict", d |-> [bytes |-> b]] :
              b \in {[kind |-> "none"], [kind |-> "empty"], [kind |-> "corrupt"],
                     [kind |-> "wav", n |-> 24000, sr |-> 48000]}}
RowValues == [audio : AudioCells, text : {<<"muraho">>}, speaker_id : {None, <<7>>}]

NoRow == [split |-> 0, i |-> 0, outcome |-> "none", row |-> None]

InitDecode ==
    /\ dpc = "split"
    /\ tables \in TableStates
    /\ split = 1
    /\ i = 0
    /\ rows = <<>>
    /\ dfs = <<>>
    /\ wavs = {}
    /\ csv = None
    /\ skiplog = <<>>
    /\ cur = NoRow

\* main(), line 80-82: "if files: dfs.append(run_split(name, files))";
\* run_split starts with an empty list of rows.
BeginSplit ==
    /\ dpc = "split" /\ split <= 3
    /\ IF tables[split] = None
       THEN /\ split' = split + 1
            /\ UNCHANGED <<dpc, i, rows>>
       ELSE /\ dpc' = "rows"
            /\ i' = 0
            /\ rows' = <<>>
            /\ UNCHANGED split
    /\ UNCHANGED <<tables, dfs, wavs, csv, skiplog, cur>>
    /\ UNCHANGED <<engineVars, trainVars>>

\* One iteration of "for i in range(table.num_rows)".
ProcessRow ==
    /\ dpc = "rows" /\ i < tables[split][1]
    /\ \E row \in RowValues, writeOk \in BOOLEAN :
         LET r == run_split_row(SplitNames[split], i, row, writeOk, rows, wavs, skiplog)
         IN  /\ rows' = r.rows
             /\ wavs' = r.wavs
             /\ skiplog' = r.log
             /\ cur' = [split |-> split, i |-> i, outcome |-> r.outcome, row |-> <<row>>]
             /\ IF r.outcome = "raised"
                THEN dpc' = "crashed" /\ i' = i
                ELSE dpc' = dpc /\ i' = i + 1
    /\ UNCHANGED <<tables, split, dfs, csv>>
    /\ UNCHANGED <<engineVars, trainVars>>

\* run_split returns pd.DataFrame(rows); main appends it to dfs.
EndSplit ==
    /\ dpc = "rows" /\ i = tables[split][1]
    /\ dfs' = Append(dfs, rows)
    /\ split' = split + 1
    /\ dpc' = "split"
    /\ UNCHANGED <<tables, i, rows, wavs, csv, skiplog, cur>>
    /\ UNCHANGED <<engineVars, trainVars>>

RECURSIVE Concat(_)
Concat(ds) == IF ds = <<>> THEN <<>> ELSE Head(ds) \o Concat(Tail(ds))

\* main(), line 83-89: exit(1) when no split had files, else metadata.csv.
Finish ==
    /\ dpc = "split" /\ split = 4
    /\ IF dfs = <<>>
       THEN dpc' = "exit1" /\ csv' = csv
       ELSE dpc' = "done" /\ csv' = <<Concat(dfs)>>
    /\ UNCHANGED <<tables, split, i, rows, dfs, wavs, skiplog, cur>>
    /\ UNCHANGED <<engineVars, trainVars>>

NextDecode == BeginSplit \/ ProcessRow \/ EndSplit \/ Finish

(***************************************************************************)
(*                            THE TRAINER                                  *)
(***************************************************************************)

\* Paths are sequences of segments; an absolute path starts with "/".
ProjectRoot == <<"/", "proj">>
IsAbsolute(p) == p # <<>> /\ p[1] = "/"

DEFAULT_BASE_MODEL == <<"facebook/mms-tts-kin">>
FinalDir(c) == ProjectRoot \o Get(c, "final_model_dir", <<"artifacts", "final_model">>)
CheckpointDir(c) == ProjectRoot \o Get(c, "checkpoint_dir", <<"artifacts", "checkpoints">>)

\* Lines 30-34: resume_path is None when resume_from is missing or empty.
ResumePath(c) ==
    LET resume_from == Get(c, "resume_from", <<>>)
    IN  IF resume_from = <<>> THEN None
        ELSE IF IsAbsolute(resume_from) THEN <<resume_from>>
        ELSE <<ProjectRoot \o resume_from>>

\* Lines 38-39: mkdir(parents=True, exist_ok=True).
Mkdir(f, p) == IF p \in DOMAIN f THEN f ELSE [q \in DOMAIN f \cup {p} |-> IF q = p THEN {} ELSE f[q]]

\* Lines 46-53: the training rows left after the split filter and the
\* optional subsampling.
MIN_TRAIN_SAMPLES == 20

\* metadata.csv is <<>> when the file does not exist, else <<m>> with
\* m.train rows whose split is "train" and m.other rows of other splits.
\* Line 46: meta[meta["split"] == "train"], and its length.
TrainSplit(m) == m[1].train

\* Lines 41-48: the exception the preconditions raise ("" when they hold).
PreconditionAllRows(m) ==
    IF m = None THEN "FileNotFoundError"
    ELSE IF m[1].train + m[1].other < MIN_TRAIN_SAMPLES THEN "ValueError"
    ELSE ""
Precondition(m) ==
    IF m = None THEN "FileNotFoundError"
    ELSE IF TrainSplit(m) < MIN_TRAIN_SAMPLES THEN "ValueError"
    ELSE ""

TrainRows(c, n) ==
    IF "max_train_samples" \in DOMAIN c /\ c["max_train_samples"] > 0
         /\ n > c["max_train_samples"]
    THEN c["max_train_samples"] ELSE n

\* Lines 56-72: resume only from a directory that holds config.json and a
\* weight file.
LoadFromConfigOnly(c, f) ==
    IF /\ ResumePath(c) # None
       /\ DirExists(f, ResumePath(c)[1])
       /\ FileExists(f, ResumePath(c)[1], "config.json")
    THEN ResumePath(c) ELSE None
LoadFrom(c, f) ==
    IF /\ ResumePath(c) # None
       /\ DirExists(f, ResumePath(c)[1])
       /\ FileExists(f, ResumePath(c)[1], "config.json")
       /\ _has_weights(f, ResumePath(c)[1])
    THEN ResumePath(c) ELSE None

\* Lines 109-118: what is loaded, and the learning rate (in units of 1e-7).
DEFAULT_RESUME_LR == 20
DEFAULT_LEARNING_RATE == 50
ModelSource(c, lf) == IF lf # None THEN lf[1] ELSE Get(c, "base_model", DEFAULT_BASE_MODEL)
LearningRate(c, lf) ==
    IF lf # None THEN Get(c, "resume_lr", DEFAULT_RESUME_LR)
    ELSE Get(c, "learning_rate", DEFAULT_LEARNING_RATE)

\* len(loader) with drop_last=True.
DEFAULT_BATCH_SIZE == 4
StepsPerEpoch(c, n) == TrainRows(c, n) \div Get(c, "batch_size", DEFAULT_BATCH_SIZE)

\* What save_pretrained (model, tokenizer) and the config.yaml dump leave
\* in a directory.
ModelFiles == {"config.json", "model.safetensors"}
TokenizerFiles == {"tokenizer_config.json", "vocab.json"}
SaveInto(f, p, files) == [f EXCEPT ![p] = f[p] \cup files]

\* Averages are fractions <<sum, count>>; best_loss is <<>> for float("inf").
LessThanBest(avg, best) == best = None \/ avg[1] * best[1][2] < best[1][1] * avg[2]

CHECKPOINT_EVERY == 5

\* ---- the trainer as a state machine ----

MaxEpochs == 5

\* Where a batch can raise, and the two ways it ends without raising.
RaiseSites == {"to_device", "forward", "loss", "backward", "optimizer", "scheduler"}
Losses == {1, 2}

NoBatch == [how |-> "", epoch |-> 0, idx |-> 0]

TrainIdleRest ==
    /\ load_from = None
    /\ loaded = <<>>
    /\ lr = 0
    /\ steps = 0
    /\ epoch = 0
    /\ batch_idx = 0
    /\ epoch_loss = 0
    /\ n_batches = 0
    /\ best_loss = None
    /\ weights = 0
    /\ final_dir = None
    /\ checkpoint_dir = None
    /\ saves = <<>>
    /\ hist = None
    /\ raised = ""
    /\ batch_log = NoBatch

\* Lines 38-48: create the output directories, then insist on the metadata
\* and on 20 training rows.
Prepare ==
    /\ tpc = "start"
    /\ tfs' = Mkdir(Mkdir(tfs, CheckpointDir(cfg)), FinalDir(cfg))
    /\ IF Precondition(meta) # ""
       THEN tpc' = "raised" /\ raised' = Precondition(meta)
       ELSE tpc' = "select" /\ raised' = raised
    /\ UNCHANGED <<cfg, meta, load_from, loaded, lr, epochs, steps, epoch, batch_idx,
                   epoch_loss, n_batches, best_loss, weights, final_dir,
                   checkpoint_dir, saves, hist>>
    /\ UNCHANGED batch_log
    /\ UNCHANGED <<engineVars, decodeVars>>

\* Lines 56-121: choose between resuming and the base model, load it.
LoadModel ==
    /\ tpc = "select"
    /\ load_from' = LoadFrom(cfg, tfs)
    /\ loaded' = ModelSource(cfg, LoadFrom(cfg, tfs))
    /\ lr' = LearningRate(cfg, LoadFrom(cfg, tfs))
    /\ tpc' = "loaded"
    /\ UNCHANGED <<cfg, tfs, meta, epochs, steps, epoch, batch_idx, epoch_loss,
                   n_batches, best_loss, weights, final_dir, checkpoint_dir,
                   saves, hist, raised>>
    /\ UNCHANGED batch_log
    /\ UNCHANGED <<engineVars, decodeVars>>

\* Lines 123-139: the loader, best_loss = inf, the first epoch's counters.
\* With epochs = 0 the loop body never runs.
StartTraining ==
    /\ tpc = "loaded"
    /\ steps' = StepsPerEpoch(cfg, TrainSplit(meta))
    /\ best_loss' = None
    /\ epoch' = 0 /\ batch_idx' = 0 /\ epoch_loss' = 0 /\ n_batches' = 0
    /\ tpc' = IF epochs = 0 THEN "final" ELSE "batch"
    /\ UNCHANGED <<cfg, tfs, meta, load_from, loaded, lr, epochs, weights, final_dir,
                   checkpoint_dir, saves, hist, raised>>
    /\ UNCHANGED batch_log
    /\ UNCHANGED <<engineVars, decodeVars>>

\* One iteration of "for batch_idx, batch in enumerate(pbar)" (lines
\* 141-170).  how: "none" (the collate function returned None), "short"
\* (min_len < 1600), "ok", or the site that raises.  The tensors are moved
\* to the device before the try block opens; everything from the forward
\* pass on is inside it.  w counts the optimizer steps taken so far.
train_batch(how, loss, sum, count, w) ==
    IF how \in {"none", "short"} THEN
        [epoch_loss |-> sum, n_batches |-> count, weights |-> w, propagates |-> FALSE]
    ELSE IF how = "to_device" THEN
        [epoch_loss |-> sum, n_batches |-> count, weights |-> w, propagates |-> TRUE]
    ELSE IF how \in {"forward", "loss", "backward", "optimizer"} THEN
        [epoch_loss |-> sum, n_batches |-> count, weights |-> w, propagates |-> FALSE]
    ELSE IF how = "scheduler" THEN
        [epoch_loss |-> sum, n_batches |-> count, weights |-> w + 1, propagates |-> FALSE]
    ELSE
        [epoch_loss |-> sum + loss, n_batches |-> count + 1, weights |-> w + 1,
         propagates |-> FALSE]

\* Lines 171-183, at the end of epoch number k (1-based): whether the
\* model goes to final_dir as the best so far, best_loss afterwards, and
\* whether a checkpoint is written.
end_of_epoch_checkpoint_in_if(k, sum, count, best) ==
    LET improved == count > 0 /\ LessThanBest(<<sum, count>>, best)
    IN  [save_best  |-> improved,
         best_loss  |-> IF improved THEN <<(<<sum, count>>)>> ELSE best,
         checkpoint |-> count > 0 /\ k % CHECKPOINT_EVERY = 0]
end_of_epoch(k, sum, count, best) ==
    LET improved == count > 0 /\ LessThanBest(<<sum, count>>, best)
    IN  [save_best  |-> improved,
         best_loss  |-> IF improved THEN <<(<<sum, count>>)>> ELSE best,
         checkpoint |-> k % CHECKPOINT_EVERY = 0]

Batch ==
    /\ tpc = "batch" /\ batch_idx < steps
    /\ \E how \in RaiseSites \cup {"none", "short", "ok"} :
         \E loss \in (IF how = "ok" THEN Losses ELSE {0}) :
         LET r == train_batch(how, loss, epoch_loss, n_batches, weights)
         IN  /\ epoch_loss' = r.epoch_loss
             /\ n_batches' = r.n_batches
             /\ weights' = r.weights
             /\ batch_log' = [how |-> how, epoch |-> epoch + 1, idx |-> batch_idx]
             /\ IF r.propagates
                THEN tpc' = "raised" /\ raised' = how /\ batch_idx' = batch_idx
                ELSE tpc' = tpc /\ raised' = raised /\ batch_idx' = batch_idx + 1
    /\ UNCHANGED <<cfg, tfs, meta, load_from, loaded, lr, epochs, steps, epoch,
                   best_loss, final_dir, checkpoint_dir, saves, hist>>
    /\ UNCHANGED <<engineVars, decodeVars>>

\* The epoch with the lowest average so far (the earliest on a tie), kept
\* beside the program's own best_loss: [epoch, avg, weights].
LowestSoFar(h, k, sum, count, w) ==
    IF count = 0 THEN h
    ELSE IF h = None \/ sum * h[1].avg[2] < h[1].avg[1] * count
    THEN <<[epoch |-> k, avg |-> <<sum, count>>, weights |-> w]>>
    ELSE h

EndEpoch ==
    /\ tpc = "batch" /\ batch_idx = steps
    /\ LET k == epoch + 1
           r == end_of_epoch(k, epoch_loss, n_batches, best_loss)
           f1 == IF r.save_best
                 THEN SaveInto(tfs, FinalDir(cfg),
                               ModelFiles \cup TokenizerFiles \cup {"config.yaml"})
                 ELSE tfs
       IN  /\ best_loss' = r.best_loss
           /\ final_dir' = IF r.save_best
                           THEN <<[weights |-> weights, epoch |-> k, by |-> "best"]>>
                           ELSE final_dir
           /\ checkpoint_dir' = IF r.checkpoint
                                THEN <<[weights |-> weights, epoch |-> k]>>
                                ELSE checkpoint_dir
           /\ tfs' = IF r.checkpoint
                     THEN SaveInto(f1, CheckpointDir(cfg), ModelFiles \cup TokenizerFiles)
                     ELSE f1
           /\ saves' = [epoch |-> k,
                        events |-> (IF r.save_best THEN <<"final_dir">> ELSE <<>>)
                                     \o (IF r.checkpoint THEN <<"checkpoint_dir">> ELSE <<>>)]
           /\ hist' = LowestSoFar(hist, k, epoch_loss, n_batches, weights)
           /\ epoch' = k
           /\ tpc' = IF k < epochs THEN "batch" ELSE "final"
    /\ batch_idx' = 0 /\ epoch_loss' = 0 /\ n_batches' = 0
    /\ UNCHANGED <<cfg, meta, load_from, loaded, lr, epochs, steps, weights, raised>>
    /\ UNCHANGED batch_log
    /\ UNCHANGED <<engineVars, decodeVars>>

\* Lines 185-188: the save that ends main().
FinalSave ==
    /\ tpc = "final"
    /\ final_dir' = <<[weights |-> weights, epoch |-> epoch, by |-> "end"]>>
    /\ tfs' = SaveInto(tfs, FinalDir(cfg), ModelFiles \cup TokenizerFiles \cup {"config.yaml"})
    /\ tpc' = "done"
    /\ UNCHANGED <<cfg, meta, load_from, loaded, lr, epochs, steps, epoch, batch_idx,
                   epoch_loss, n_batches, best_loss, weights, checkpoint_dir,
                   saves, hist, raised>>
    /\ UNCHANGED batch_log
    /\ UNCHANGED <<engineVars, decodeVars>>

NextTrain == Prepare \/ LoadModel \/ StartTraining \/ Batch \/ EndEpoch \/ FinalSave

\* ---- what the trainer is started with ----

ResumeDirs == {ProjectRoot \o <<"artifacts", "final_model">>, <<"/", "ckpt">>}
TrainFsStates == UNION {[S -> DirContents] : S \in SUBSET ResumeDirs}

\* The cfg dicts of the start-up specification: every combination of the
\* keys the resume policy and the sample count read.
SetupConfigs ==
    {MkDict([resume_from |-> rf, resume_lr |-> rl, learning_rate |-> l,
             base_model |-> bm, max_train_samples |-> mx,
             epochs |-> <<1>>, batch_size |-> <<20>>]) :
        rf \in {None, <<(<<>>)>>, <<(<<"artifacts", "final_model">>)>>, <<(<<"/", "ckpt">>)>>},
        rl \in {None, <<10>>}, l \in {None, <<100>>},
        bm \in {None, <<(<<"org", "base-tts">>)>>}, mx \in {None, <<25>>}}

\* The cfg dicts of the training-loop specification.
TrainConfigs ==
    {MkDict([resume_from |-> <<(<<"artifacts", "final_model">>)>>,
             epochs |-> <<e>>, batch_size |-> <<bs>>]) :
        e \in 0..MaxEpochs, bs \in {20, 32}}

DEFAULT_EPOCHS == 50

\* metadata.csv as the data pipeline may have left it: absent, empty, or
\* with rows of the train split and of the others.
MetadataFiles ==
    {None} \cup {<<[train |-> t, other |-> o]>> : t \in {0, 19, 20, 40}, o \in {0, 6}}

InitSetup ==
    /\ tpc = "start"
    /\ cfg \in SetupConfigs
    /\ tfs \in TrainFsStates
    /\ meta \in MetadataFiles
    /\ epochs = Get(cfg, "epochs", DEFAULT_EPOCHS)
    /\ TrainIdleRest

\* The start of the long runs, in which checkpoints recur: one batch per
\* epoch, nothing to resume from.
MaxCheckpointEpochs == 10
CheckpointConfigs ==
    {MkDict([epochs |-> <<e>>, batch_size |-> <<20>>]) : e \in 1..MaxCheckpointEpochs}
InitCheckpoint ==
    /\ tpc = "start"
    /\ cfg \in CheckpointConfigs
    /\ tfs = <<>>
    /\ meta = <<[train |-> 20, other |-> 6]>>
    /\ epochs = Get(cfg, "epochs", DEFAULT_EPOCHS)
    /\ TrainIdleRest

InitTrain ==
    /\ tpc = "start"
    /\ cfg \in TrainConfigs
    /\ tfs \in {<<>>, [p \in {ProjectRoot \o <<"artifacts", "final_model">>} |->
                         {"config.json", "model.safetensors"}]}
    /\ meta \in {<<[train |-> 20, other |-> 0]>>, <<[train |-> 40, other |-> 6]>>}
    /\ epochs = Get(cfg, "epochs", DEFAULT_EPOCHS)
    /\ TrainIdleRest

(***************************************************************************)
(*                         THE SPECIFICATIONS                              *)
(***************************************************************************)

\* Each program runs in a process of its own; in the specification of one,
\* the state of the others is at rest.
EngineIdle ==
    /\ engine = "shiny" /\ env = <<>> /\ fs = <<>> /\ _model = None
    /\ nBuilt = 0 /\ last = NoCall /\ out = None
DecodeIdle ==
    /\ dpc = "idle" /\ tables = <<>> /\ split = 0 /\ i = 0 /\ rows = <<>>
    /\ dfs = <<>> /\ wavs = {} /\ csv = None /\ skiplog = <<>> /\ cur = NoRow
TrainIdle ==
    /\ tpc = "idle" /\ cfg = <<>> /\ tfs = <<>> /\ meta = None /\ epochs = 0
    /\ TrainIdleRest

Init == InitEngine /\ DecodeIdle /\ TrainIdle
Next == NextEngine
Spec == Init /\ [][Next]_vars

DecodeInit == InitDecode /\ EngineIdle /\ TrainIdle
SpecDecode == DecodeInit /\ [][NextDecode]_vars

SetupInit == InitSetup /\ EngineIdle /\ DecodeIdle
SpecSetup == SetupInit /\ [][NextTrain]_vars

TrainInit == InitTrain /\ EngineIdle /\ DecodeIdle
SpecTrain == TrainInit /\ [][NextTrain]_vars

CheckpointInit == InitCheckpoint /\ EngineIdle /\ DecodeIdle
SpecCheckpoint == CheckpointInit /\ [][NextTrain]_vars

(***************************************************************************)
(*                      PROPERTIES OF THE ENGINE                           *)
(***************************************************************************)

Called == last.op \in {"load_model", "synthesize"}
Rate == _model[1]._sampling_rate

\* C1.  Load once, reuse: a process constructs at most one pipeline, and
\* only in a call that found _model unset; once _model is set no step
\* changes it, a later load_model() or synthesize() neither reads the
\* environment nor builds anything, and synthesize() runs on that handle.
C1_LoadOnceReuse ==
    /\ [](/\ nBuilt <= 1
          /\ (last.built => last.before = None /\ _model # None)
          /\ (Called /\ last.before # None =>
                /\ _model = last.before
                /\ ~last.readEnv /\ ~last.built /\ ~last.raised
                /\ (last.op = "synthesize" => last.used = last.before)))
    /\ [][_model # None => _model' = _model]_vars

\* C1 witness: synthesize() has just run on the cached handle although the
\* environment now selects another model.
C1_Witness ==
    /\ last.op = "synthesize" /\ last.before # None /\ out # None
    /\ last.used = _model
    /\ SelectModelPath(engine, env, fs) # _model[1].path

\* C2 as claimed: the rate of the WAV returned equals the rate cached from
\* the model config, for every configured rate.
C2_WavRateIsModelRate ==
    out # None => out[1].wav.sr = Rate

\* C2 as amended: the WAV returned is always at 16000 Hz, which is the
\* model's configured rate exactly when that rate is 16000; the samples are
\* taken to be at the configured rate (never at the rate the pipeline
\* output reports) and resampled from it, so the WAV holds
\* ceil(samples * 16000 / rate) samples.
C2_WavRateIsTarget ==
    out # None =>
        /\ out[1].wav.sr = 16000
        /\ (out[1].wav.sr = Rate <=> Rate = 16000)
        /\ out[1].wav.n * Rate >= out[1].samples_in * 16000
        /\ (out[1].wav.n - 1) * Rate < out[1].samples_in * 16000

\* C2 witness: a model configured for 22050 Hz returned voiced audio that
\* the pipeline labelled 16000 Hz, and the WAV came out at 16000 Hz.
C2_Witness ==
    /\ out # None /\ Rate = 22050
    /\ out[1].given.keys = {"audio", "sampling_rate"}
    /\ out[1].samples_in = 11025 /\ out[1].wav.n = 8000

\* The pipeline yielded no audio: an empty list, or a dict with neither an
\* "audio" nor an "output" entry.
NoAudioGiven(g) ==
    \/ g.kind = "list" /\ g.len = 0
    \/ g.item = "dict" /\ "audio" \notin g.keys /\ "output" \notin g.keys

\* C3.  When the model yields no audio, synthesize() still returns: it
\* hands on 2 seconds of zeros at the model's rate, and the WAV is silent,
\* 2 seconds long, and not peak-normalized.
C3_SilentFallback ==
    /\ (last.op = "synthesize" /\ ~last.raised => out # None)
    /\ (out # None /\ NoAudioGiven(out[1].given) =>
          /\ out[1].samples_in = 2 * Rate
          /\ out[1].wav.peak = 0
          /\ ~out[1].wav.normalized
          /\ out[1].wav.n = 2 * out[1].wav.sr)

\* C3 witness: the pipeline returned an empty list from a 22050 Hz model.
C3_Witness ==
    /\ out # None /\ out[1].given.kind = "list" /\ out[1].given.len = 0
    /\ Rate = 22050 /\ out[1].samples_in = 44100

\* Case-insensitive equality with a lower-case word.
IsWord(v, w) ==
    /\ Len(v) = Len(w)
    /\ \A k \in 1..Len(w) :
         \/ v[k] = w[k]
         \/ \E j \in 1..26 : LowerChars[j] = w[k] /\ UpperChars[j] = v[k]

PretrainedForced ==
    /\ "TTS_USE_PRETRAINED" \in DOMAIN env
    /\ \E w \in {<<"1">>, <<"t","r","u","e">>, <<"y","e","s">>} :
         IsWord(env["TTS_USE_PRETRAINED"], w)

\* <project root>/artifacts/final_model: the root is TTS_PROJECT_ROOT, or
\* the script's parent directory when that is unset or empty.
LocalDir ==
    (IF "TTS_PROJECT_ROOT" \in DOMAIN env /\ env["TTS_PROJECT_ROOT"] # <<>>
     THEN env["TTS_PROJECT_ROOT"] ELSE <<"app">>) \o <<"artifacts", "final_model">>

LocalHasWeights ==
    /\ LocalDir \in DOMAIN fs
    /\ fs[LocalDir] \cap {"model.safetensors", "pytorch_model.bin",
                          "tf_model.h5", "flax_model.msgpack"} # {}

PretrainedPath ==
    IF "TTS_MODEL_PATH" \in DOMAIN env THEN env["TTS_MODEL_PATH"]
    ELSE <<"facebook/mms-tts-kin">>

\* C7.  load_model() builds the pipeline from the local final_model
\* directory if and only if TTS_USE_PRETRAINED is not 1/true/yes (in any
\* case), the directory exists, holds config.json and, in the Shiny engine,
\* holds a weight file; otherwise from TTS_MODEL_PATH, or from
\* facebook/mms-tts-kin when that is unset.
C7_ModelSource ==
    last.built =>
        LET local == /\ ~PretrainedForced
                     /\ LocalDir \in DOMAIN fs
                     /\ "config.json" \in fs[LocalDir]
                     /\ (engine = "shiny" => LocalHasWeights)
        IN  /\ (_model[1].path = LocalDir <=> local)
            /\ (~local => _model[1].path = PretrainedPath)

\* C7 witness: the Shiny engine has just loaded the local directory while
\* TTS_USE_PRETRAINED and TTS_MODEL_PATH were both set.
C7_Witness ==
    /\ last.built /\ engine = "shiny" /\ _model[1].path = LocalDir
    /\ "TTS_USE_PRETRAINED" \in DOMAIN env /\ "TTS_MODEL_PATH" \in DOMAIN env

\* C10 as claimed: when the local directory exists without a weight file
\* and TTS_USE_PRETRAINED is not set, the Shiny engine loads
\* facebook/mms-tts-kin, the model its log line names, whatever
\* TTS_MODEL_PATH is.
C10_FallsBackToDefault ==
    /\ last.built /\ engine = "shiny"
    /\ ~PretrainedForced /\ LocalDir \in DOMAIN fs /\ ~LocalHasWeights
    => /\ last.msg.names = <<"facebook/mms-tts-kin">>
       /\ _model[1].path = <<"facebook/mms-tts-kin">>

(***************************************************************************)
(*                      PROPERTIES OF THE DECODER                          *)
(***************************************************************************)

\* A row whose audio cell is null, holds no bytes, or holds bytes that do
\* not decode.
AudioNull(row) == row.audio.kind = "null"
AudioNoBytes(row) ==
    /\ row.audio.kind = "dict"
    /\ ("bytes" \notin DOMAIN row.audio.d \/ row.audio.d["bytes"].kind \in {"none", "empty"})
AudioUndecodable(row) ==
    /\ row.audio.kind = "dict" /\ "bytes" \in DOMAIN row.audio.d
    /\ row.audio.d["bytes"].kind = "corrupt"
Malformed(row) == AudioNull(row) \/ AudioNoBytes(row) \/ AudioUndecodable(row)

\* How many splits have parquet files.
SplitsWithFiles == Cardinality({k \in 1..3 : tables[k] # None})

\* C4.  A malformed row is skipped and decoding goes on: the step that
\* takes a row whose audio is null, empty or undecodable writes no WAV and
\* appends no metadata row, logs "Skip row i" exactly when decoding raised,
\* and moves on to the next row; such a row never ends the run, and a run
\* that reaches its end has been through every split that has files and
\* has written metadata.csv.
C4_MalformedRowsSkipped ==
    /\ [](/\ (dpc = "crashed" => ~Malformed(cur.row[1]))
          /\ (dpc = "done" => csv # None /\ Len(dfs) = SplitsWithFiles)
          /\ (dpc = "exit1" => SplitsWithFiles = 0))
    /\ [][cur' # cur /\ Malformed(cur'.row[1]) =>
            /\ wavs' = wavs /\ rows' = rows
            /\ dpc' = "rows" /\ i' = i + 1 /\ split' = split
            /\ IF AudioUndecodable(cur'.row[1])
               THEN skiplog' = Append(skiplog, i)
               ELSE skiplog' = skiplog]_vars

\* C4 witness: the run is over and wrote metadata.csv with the row that
\* followed an undecodable one, and with a row of a later split.
C4_Witness ==
    /\ dpc = "done" /\ csv # None
    /\ 0 \in {skiplog[k] : k \in 1..Len(skiplog)}
    /\ \E k \in 1..Len(csv[1]) : csv[1][k].split = "train" /\ csv[1][k].path = WavPath("train", 1)
    /\ \E k \in 1..Len(csv[1]) : csv[1][k].split = "test"

RowsOf(rs) == {rs[k] : k \in 1..Len(rs)}

\* C5.  Every metadata row references a WAV file this run has written:
\* inside run_split each collected row's file is already on disk and its
\* split is the split being processed, and the same holds of the rows
\* handed back to main() and of those written to metadata.csv.
C5_RowsReferenceWrittenFiles ==
    /\ (dpc \in {"rows", "crashed"} =>
          \A r \in RowsOf(rows) : r.path \in wavs /\ r.split = SplitNames[split])
    /\ \A k \in 1..Len(dfs) : \A r \in RowsOf(dfs[k]) : r.path \in wavs
    /\ (csv # None => \A r \in RowsOf(csv[1]) : r.path \in wavs)

\* C5 witness: run_split is collecting rows of the second split after the
\* first split returned some.
C5_Witness ==
    /\ dpc = "rows" /\ split = 2 /\ rows # <<>>
    /\ dfs # <<>> /\ dfs[1] # <<>>

(***************************************************************************)
(*                      PROPERTIES OF THE TRAINER                          *)
(***************************************************************************)

\* C6 as claimed: whichever step of a batch raises (moving the tensors to
\* the device, forward pass, loss, backward pass, optimizer or scheduler
\* step), the loop goes on to the next batch with epoch_loss and n_batches
\* as they were, and a run that is over has been through every configured
\* epoch and ended with the save to final_dir.
C6_RaisingBatchesSkipped ==
    /\ [](/\ raised \notin {"to_device", "forward", "loss", "backward",
                           "optimizer", "scheduler"}
          /\ (tpc = "done" => epoch = epochs /\ final_dir # None /\ final_dir[1].by = "end"))
    /\ [][/\ batch_log' # batch_log
          /\ batch_log'.how \in {"to_device", "forward", "loss", "backward",
                                 "optimizer", "scheduler"}
          => /\ tpc' = "batch" /\ batch_idx' = batch_idx + 1
             /\ epoch_loss' = epoch_loss /\ n_batches' = n_batches]_vars

\* The resume directory the config names (none when resume_from is missing
\* or empty), and whether it can be resumed from.
ConfiguredResume ==
    IF "resume_from" \notin DOMAIN cfg \/ cfg["resume_from"] = <<>> THEN <<>>
    ELSE IF cfg["resume_from"][1] = "/" THEN <<cfg["resume_from"]>>
    ELSE <<(<<"/", "proj">> \o cfg["resume_from"])>>
Resumable ==
    /\ ConfiguredResume # <<>>
    /\ ConfiguredResume[1] \in DOMAIN tfs
    /\ "config.json" \in tfs[ConfiguredResume[1]]
    /\ tfs[ConfiguredResume[1]] \cap {"model.safetensors", "pytorch_model.bin",
                                      "tf_model.h5", "flax_model.msgpack"} # {}

\* C8.  Training loads from resume_from only when that path is configured,
\* exists, and holds config.json and a weight file; otherwise it loads
\* base_model.  The learning rate is resume_lr (default 2e-6) exactly when
\* it resumes, learning_rate (default 5e-6) otherwise.
C8_ResumePolicy ==
    tpc = "loaded" =>
        IF Resumable
        THEN /\ load_from = ConfiguredResume
             /\ loaded = ConfiguredResume[1]
             /\ lr = (IF "resume_lr" \in DOMAIN cfg THEN cfg["resume_lr"] ELSE 20)
        ELSE /\ load_from = <<>>
             /\ loaded = (IF "base_model" \in DOMAIN cfg THEN cfg["base_model"]
                          ELSE <<"facebook/mms-tts-kin">>)
             /\ lr = (IF "learning_rate" \in DOMAIN cfg THEN cfg["learning_rate"] ELSE 50)

\* C8 witness: the model was loaded from a resume directory given as a
\* relative path, at the default resume learning rate, while learning_rate
\* was configured too.
C8_Witness ==
    /\ tpc = "loaded" /\ load_from = <<(<<"/", "proj", "artifacts", "final_model">>)>>
    /\ "resume_lr" \notin DOMAIN cfg /\ "learning_rate" \in DOMAIN cfg /\ lr = 20

\* The two exceptions of the preconditions, and the metadata that fails them.
PreconditionErrors == {"FileNotFoundError", "ValueError"}
MetadataMissing == meta = <<>>
TooFewTrainRows == meta # <<>> /\ meta[1].train < 20

\* C11.  The preconditions fail before any training happens: past the
\* start, a missing metadata.csv has raised FileNotFoundError and one with
\* fewer than 20 rows of the train split has raised ValueError (and nothing
\* else raises them); no model has been loaded, no optimizer step taken and
\* nothing saved; and the step that raises leaves every existing directory
\* as it was and adds at most final_dir and checkpoint_dir, both empty.
C11_PreconditionsFailEarly ==
    /\ [](/\ (tpc \notin {"idle", "start"} /\ MetadataMissing =>
                tpc = "raised" /\ raised = "FileNotFoundError")
          /\ (tpc \notin {"idle", "start"} /\ TooFewTrainRows =>
                tpc = "raised" /\ raised = "ValueError")
          /\ (raised = "FileNotFoundError" => MetadataMissing)
          /\ (raised = "ValueError" => TooFewTrainRows)
          /\ (raised \in PreconditionErrors =>
                /\ tpc = "raised"
                /\ load_from = <<>> /\ loaded = <<>> /\ weights = 0
                /\ final_dir = <<>> /\ checkpoint_dir = <<>> /\ saves = <<>>))
    /\ [][raised' \in PreconditionErrors =>
            /\ \A p \in DOMAIN tfs : p \in DOMAIN tfs' /\ tfs'[p] = tfs[p]
            /\ \A p \in DOMAIN tfs' \ DOMAIN tfs :
                  /\ p \in {<<"/", "proj", "artifacts", "final_model">>,
                            <<"/", "proj", "artifacts", "checkpoints">>}
                  /\ tfs'[p] = {}]_vars

\* C11 witness: ValueError on a metadata.csv of 25 rows of which 19 are of
\* the train split, with the final_model of an earlier run left as it was
\* and checkpoint_dir created empty.
C11_Witness ==
    /\ tpc = "raised" /\ raised = "ValueError"
    /\ meta # <<>> /\ meta[1].train = 19 /\ meta[1].other = 6
    /\ <<"/", "proj", "artifacts", "final_model">> \in DOMAIN tfs
    /\ tfs[<<"/", "proj", "artifacts", "final_model">>] = {"config.json", "model.safetensors"}
    /\ <<"/", "proj", "artifacts", "checkpoints">> \in DOMAIN tfs
    /\ tfs[<<"/", "proj", "artifacts", "checkpoints">>] = {}

\* C9 as claimed: best_loss is the lowest epoch average so far (so it never
\* increases); the end of an epoch saves to final_dir exactly when the epoch
\* had a successful batch and its average is strictly below that of every
\* earlier epoch; and when training is over final_dir holds the model of the
\* epoch with the lowest average loss.
C9_FinalDirHoldsBestModel ==
    /\ (tpc \in {"batch", "final", "done"} =>
          /\ (best_loss = None <=> hist = None)
          /\ (hist # None => best_loss[1] = hist[1].avg))
    /\ (tpc \in {"batch", "final", "done"} /\ epoch > 0 =>
          ("final_dir" \in RowsOf(saves.events) <=> hist # None /\ hist[1].epoch = epoch))
    /\ (tpc = "done" /\ hist # None => final_dir[1].weights = hist[1].weights)

\* Whether the epoch loop has been entered, and the number of the last
\* epoch that reached its end.
InLoop == tpc \in {"batch", "final", "done", "raised"} /\ epoch > 0
CheckpointFiles ==
    {"config.json", "model.safetensors", "tokenizer_config.json", "vocab.json"}

\* C12.  Periodic checkpoints: the end of epoch k saves the model and the
\* tokenizer to checkpoint_dir if and only if k is a multiple of 5, whether
\* or not a batch of the epoch succeeded or the loss improved; so
\* checkpoint_dir holds the model of the last epoch that was a multiple of
\* 5 (and nothing before epoch 5), and in an epoch that saves both, the
\* save to final_dir comes first.
C12_CheckpointEveryFifthEpoch ==
    /\ (InLoop =>
          /\ saves.epoch = epoch
          /\ ("checkpoint_dir" \in RowsOf(saves.events) <=> epoch % 5 = 0)
          /\ ("final_dir" \in RowsOf(saves.events) /\ "checkpoint_dir" \in RowsOf(saves.events)
                => saves.events = <<"final_dir", "checkpoint_dir">>))
    /\ (tpc \in {"batch", "final", "done", "raised"} =>
          /\ (checkpoint_dir = <<>> <=> epoch < 5)
          /\ (epoch >= 5 =>
                /\ checkpoint_dir[1].epoch = 5 * (epoch \div 5)
                /\ CheckpointFiles \subseteq tfs[<<"/", "proj", "artifacts", "checkpoints">>])
          /\ (epoch < 5 /\ raised \notin PreconditionErrors =>
                tfs[<<"/", "proj", "artifacts", "checkpoints">>] = {}))

\* C12 witness: the tenth epoch has ended with a checkpoint although no
\* batch of the whole run succeeded, and nothing went to final_dir.
C12_Witness ==
    /\ InLoop /\ epoch = 10 /\ hist = <<>> /\ final_dir = <<>>
    /\ saves.events = <<"checkpoint_dir">>
    /\ checkpoint_dir # <<>> /\ checkpoint_dir[1].epoch = 10

\* The metadata rows collected so far by the run: those of the splits that
\* are done, and those of the split being processed.
AllRows == Concat(dfs) \o (IF dpc \in {"rows", "crashed"} THEN rows ELSE <<>>)
RowsNaming(rs, w) == {k \in 1..Len(rs) : rs[k].path = w}

\* C13 as claimed: after any prefix of rows processed, every WAV file
\* written has exactly one metadata row whose path names it and no two
\* metadata rows share a path - also when the row's audio decoded but its
\* text or speaker_id could not be read; the same of metadata.csv once it
\* is written.
C13_WavsAndRowsOneToOne ==
    /\ \A w \in wavs : Cardinality(RowsNaming(AllRows, w)) = 1
    /\ \A j, k \in 1..Len(AllRows) : AllRows[j].path = AllRows[k].path => j = k
    /\ (csv # <<>> => \A w \in wavs : Cardinality(RowsNaming(csv[1], w)) = 1)

====
